---- MODULE Spec2Model ----
(***************************************************************************)
(* Adam CPWplus RS-232 scale driver (AdamCPWplusDriver.py) and its         *)
(* standalone serial test script (test_serial.py).                         *)
(*                                                                         *)
(* Bytes are one-character strings; "CR" and "LF" stand for \r and \n,     *)
(* "NUL" and "SOH" for \x00 and \x01.  A buffer is a sequence of bytes.    *)
(***************************************************************************)
EXTENDS Integers, Sequences, FiniteSets, TLC

(***************************************************************************)
(* Byte classes of Python's bytes regular expressions.                     *)
(***************************************************************************)
\* \s of a bytes pattern: [ \t\n\r\f\v]
WS == {" ", "TAB", "LF", "CR", "FF", "VT"}

\* [0-9]
DIGITS == {"0", "1", "2", "3", "4", "5", "6", "7", "8", "9"}

\* [0-9.]
NUMCH == DIGITS \cup {"."}

\* [+-]
SIGNCH == {"+", "-"}

\* protocol.commandTerminator = b'\r\n'
commandTerminator == <<"CR", "LF">>

\* protocol.measureCommand = b'G'
measureCommand == <<"G">>

\* (?:lb|kg|oz)
UNITS == {<<"l", "b">>, <<"k", "g">>, <<"o", "z">>}

\* The index after the longest run of bytes of class C that starts at i
\* (a greedy X* ; the patterns below never need to give bytes back, since
\* each class is disjoint from the byte that must follow it).
RECURSIVE SkipWhile(_, _, _)
SkipWhile(s, i, C) ==
    IF i <= Len(s) /\ s[i] \in C THEN SkipWhile(s, i + 1, C) ELSE i

\* The literal lit stands at index i of s.
HasAt(s, i, lit) ==
    /\ i >= 1
    /\ i + Len(lit) - 1 <= Len(s)
    /\ SubSeq(s, i, i + Len(lit) - 1) = lit

\* b'G/W' in answer, b'N/W' in answer
Contains(s, lit) == \E i \in 1..Len(s) : HasAt(s, i, lit)

\* [GN]/W\s* at index i: the index after it, or 0 when it does not match.
PrefixAt(s, i) ==
    IF i <= Len(s) /\ s[i] \in {"G", "N"} /\ HasAt(s, i + 1, <<"/", "W">>)
    THEN SkipWhile(s, i + 3, WS)
    ELSE 0

NoMatch == [ok |-> FALSE]

\* [+-]\s*([0-9.]+)\s+(?:lb|kg|oz) anchored at index j.
MagnitudeAt(s, j) ==
    LET k == SkipWhile(s, j + 1, WS)
        n == SkipWhile(s, k, NUMCH)
        m == SkipWhile(s, n, WS)
    IN  IF /\ j >= 1
           /\ j <= Len(s)
           /\ s[j] \in SIGNCH
           /\ n > k
           /\ m > n
           /\ \E u \in UNITS : HasAt(s, m, u)
        THEN [ok |-> TRUE, group1 |-> SubSeq(s, k, n - 1), signch |-> s[j]]
        ELSE NoMatch

\* (?:[GN]/W\s*)?[+-]\s*([0-9.]+)\s+(?:lb|kg|oz) anchored at index i: the
\* optional prefix is tried first, then the pattern without it.
MeasureAt(s, i) ==
    IF PrefixAt(s, i) > 0 /\ MagnitudeAt(s, PrefixAt(s, i)).ok
    THEN MagnitudeAt(s, PrefixAt(s, i))
    ELSE MagnitudeAt(s, i)

\* re.search(CPW_MEASURE_REGEXP, answer): the leftmost match.
CPW_MEASURE_REGEXP(s) ==
    LET hits == {i \in 1..Len(s) : MeasureAt(s, i).ok}
    IN  IF hits = {} THEN NoMatch
        ELSE MeasureAt(s, CHOOSE i \in hits : \A j \in hits : i <= j)

\* (-)\s*[0-9.] anchored at index j.
MinusAt(s, j) ==
    /\ j >= 1
    /\ j <= Len(s)
    /\ s[j] = "-"
    /\ LET k == SkipWhile(s, j + 1, WS) IN k <= Len(s) /\ s[k] \in NUMCH

\* re.search(CPW_SIGN_REGEXP, answer) is not None:
\* (?:[GN]/W\s*)?(-)\s*[0-9.] somewhere in the buffer.
CPW_SIGN_REGEXP(s) ==
    \E i \in 1..Len(s) :
        \/ PrefixAt(s, i) > 0 /\ MinusAt(s, PrefixAt(s, i))
        \/ MinusAt(s, i)

\* re.search(rb'[+-]\s*[0-9.]+\s+(?:lb|kg|oz)', answer) of supported().
ProbePattern(s) == \E i \in 1..Len(s) : MagnitudeAt(s, i).ok

(***************************************************************************)
(* float(match.group(1)) on a [0-9.]+ token.  A value is a sign and a      *)
(* decimal m / 10^e with the trailing zeros of the fraction dropped, so    *)
(* that 5.00 = 5.0 = 5 while -0.0 keeps its sign.                          *)
(***************************************************************************)
DigitVal(c) ==
    CASE c = "0" -> 0 [] c = "1" -> 1 [] c = "2" -> 2 [] c = "3" -> 3
      [] c = "4" -> 4 [] c = "5" -> 5 [] c = "6" -> 6 [] c = "7" -> 7
      [] c = "8" -> 8 [] c = "9" -> 9

RECURSIVE Num(_)
Num(ds) ==
    IF ds = <<>> THEN 0
    ELSE 10 * Num(SubSeq(ds, 1, Len(ds) - 1)) + DigitVal(ds[Len(ds)])

RECURSIVE StripZeros(_)
StripZeros(ds) ==
    IF ds # <<>> /\ ds[Len(ds)] = "0"
    THEN StripZeros(SubSeq(ds, 1, Len(ds) - 1))
    ELSE ds

\* float() accepts the token: one dot at most and one digit at least.
IsDecimal(tok) ==
    /\ Cardinality({i \in 1..Len(tok) : tok[i] = "."}) <= 1
    /\ \E i \in 1..Len(tok) : tok[i] \in DIGITS

\* float(tok) for a token float() accepts.
float(tok) ==
    LET dots == {i \in 1..Len(tok) : tok[i] = "."}
        dot  == IF dots = {} THEN Len(tok) + 1 ELSE CHOOSE i \in dots : TRUE
        frac == StripZeros(SubSeq(tok, dot + 1, Len(tok)))
    IN  [neg |-> FALSE, m |-> Num(SubSeq(tok, 1, dot - 1) \o frac), e |-> Len(frac)]

\* weight = -weight
Negate(v) == [v EXCEPT !.neg = ~v.neg]

\* The int 0 of self.data.get('result', 0).
Zero == [neg |-> FALSE, m |-> 0, e |-> 0]

(***************************************************************************)
(* The scale on the other end of the line.  A reply is either a line of    *)
(* the wire format, kept with its parts, or raw bytes.                     *)
(***************************************************************************)
\* Largest run of blanks between two tokens of a generated reply.
MaxWs == 2

Blanks == {[i \in 1..n |-> " "] : n \in 0..MaxWs}

GW == <<"G", "/", "W">>

NW == <<"N", "/", "W">>

\* Decimal numbers the scale shows.
WireNumbers ==
    { <<"5", ".", "0", "0">>, <<"0", ".", "5", "0">>, <<"1", "2", ".", "5">>,
      <<"0", ".", "0", "0">>, <<"5">>, <<".", "5">> }

\* Lines of the wire format: [G/W|N/W] ws [+-] ws number ws unit CRLF.
WireReplies ==
    [kind : {"wire"}, p : {<<>>, GW, NW}, w1 : Blanks, sg : SIGNCH,
     w2 : Blanks, num : WireNumbers, w3 : Blanks, u : UNITS]

Raw(b) ==
    [kind |-> "raw", p |-> b, w1 |-> <<>>, sg |-> "+", w2 |-> <<>>,
     num |-> <<>>, w3 |-> <<>>, u |-> <<>>]

Wire(p, w1, sg, w2, num, w3, u) ==
    [kind |-> "wire", p |-> p, w1 |-> w1, sg |-> sg, w2 |-> w2, num |-> num,
     w3 |-> w3, u |-> u]

\* The bytes of a reply as the scale sends them.
Bytes(r) ==
    IF r.kind = "raw" THEN r.p
    ELSE r.p \o r.w1 \o <<r.sg>> \o r.w2 \o r.num \o r.w3 \o r.u
         \o commandTerminator

\* Z -> Zero   Response: "<Z\r\n"
ZeroReply == Raw(<<"<", "Z", "CR", "LF">>)

\* Replies that are no line of the wire format: silence, noise, a token
\* float() rejects, a line after leading noise.
OddReplies ==
    { Raw(<<>>),
      Raw(<<"NUL", "SOH">>),
      Raw(<<"O", "K", "CR", "LF">>),
      Raw(<<"+", " ", ".", " ", "l", "b", "CR", "LF">>),
      Raw(<<"+", " ", "1", ".", "2", ".", "3", " ", "l", "b", "CR", "LF">>),
      Raw(<<"-", "1", " ", "+", " ", "5", " ", "l", "b", "CR", "LF">>),
      Raw(<<"+", " ", "5", " ", "l", "b">>),
      ZeroReply }

\* "+ 5 lb\r\n"
FivePounds == Wire(<<>>, <<>>, "+", <<" ">>, <<"5">>, <<" ">>, <<"l", "b">>)

\* "N/W - 0.50 kg\r\n"
HalfKiloUnder ==
    Wire(NW, <<" ">>, "-", <<" ">>, <<"0", ".", "5", "0">>, <<" ">>, <<"k", "g">>)

\* What the scale of the concurrent model answers to G.
SmallReplies == {FivePounds, HalfKiloUnder, Raw(<<"NUL", "SOH">>), Raw(<<>>)}

\* What the scale of the single-measure model answers to G.
BigReplies == WireReplies \cup OddReplies

(***************************************************************************)
(* The driver on its production connection.                                *)
(***************************************************************************)
VARIABLES
    data,       \* self.data: [result, status]
    dtr,        \* self._connection.dtr
    rts,        \* self._connection.rts
    lock,       \* owner of the device lock held around a command cycle
    pc,         \* where the polling thread and the action thread stand
    kind,       \* the action the action thread performs
    rx,         \* bytes the scale has sent and the driver has not read
    answer,     \* answer of _read_weight
    ncmd,       \* operations started so far
    wlog,       \* per thread: the writes of its current operation
    nread,      \* per thread: the captures of its current operation
    lastWrite,  \* the control lines as they stood at the latest write
    sent,       \* the reply the scale gave to the latest G
    last,       \* the latest finished measure: its answer, the value before
    lastGood,   \* the latest answer a value was decoded from
    report      \* what the latest finished action reported

dvars ==
    <<data, dtr, rts, lock, pc, kind, rx, answer, ncmd, wlog, nread,
      lastWrite, sent, last, lastGood, report>>

\* Operations one behaviour starts at most.
MaxCmds == 3

\* max_length of the capture.
MaxLength == 20

Threads == {"poll", "act"}

\* No 'result' key in self.data.
NoResult == [neg |-> FALSE, m |-> -1, e |-> 0]

\* self._status, the connection state of the open production connection.
status == "connected"

NoAnswer == <<"none">>

InitDriver ==
    /\ data = [result |-> NoResult, status |-> "absent"]
    /\ dtr = TRUE
    /\ rts = TRUE
    /\ lock = "free"
    /\ pc = [t \in Threads |-> "idle"]
    /\ kind = "none"
    /\ rx = <<>>
    /\ answer = <<>>
    /\ ncmd = 0
    /\ wlog = [t \in Threads |-> <<>>]
    /\ nread = [t \in Threads |-> 0]
    /\ lastWrite = [by |-> "none", dtr |-> FALSE, rts |-> FALSE,
                   settling |-> FALSE, timeout |-> FALSE]
    /\ sent = Raw(<<>>)
    /\ last = [answer |-> NoAnswer, prev |-> NoResult, outcome |-> "none"]
    /\ lastGood = NoAnswer
    /\ report = [action |-> "none", status |-> "absent"]

\* A control line was changed and the settle delay has not elapsed.
Settling == \E t \in Threads : pc[t] \in {"fc_rts", "fc_sleep"}

\* What the scale puts on the line after a command: nothing while a control
\* line is asserted, else its reply r.
Reply(r) == IF dtr \/ rts THEN <<>> ELSE Bytes(r)

\* How connection.write ends: the bytes are sent, or the port does not
\* take them within writeTimeout and SerialTimeoutException is raised.
WriteOutcomes == {"ok", "timeout"}

\* connection.write(bytes) by thread t, ending as o.
Write(t, bytes, o) ==
    /\ wlog' = [wlog EXCEPT ![t] = Append(@, bytes)]
    /\ lastWrite' = [by |-> t, dtr |-> dtr, rts |-> rts, settling |-> Settling,
                     timeout |-> (o = "timeout")]

\* if self._connection and self._connection.dtr: at the start of
\* _take_measure and of _do_action.
FlowControlCheck(t) ==
    /\ pc[t] = "idle"
    /\ ncmd < MaxCmds
    /\ ncmd' = ncmd + 1
    /\ pc' = [pc EXCEPT ![t] = IF dtr THEN "fc_dtr" ELSE "super"]
    /\ wlog' = [wlog EXCEPT ![t] = <<>>]
    /\ nread' = [nread EXCEPT ![t] = 0]

take_measure ==
    /\ FlowControlCheck("poll")
    /\ UNCHANGED <<data, dtr, rts, lock, kind, rx, answer, lastWrite, sent,
                   last, lastGood, report>>

do_action ==
    /\ FlowControlCheck("act")
    /\ \E k \in {"tare", "zero"} : kind' = k
    /\ UNCHANGED <<data, dtr, rts, lock, rx, answer, lastWrite, sent, last,
                   lastGood, report>>

\* _disable_flow_control: connection.dtr = False
disable_flow_control_dtr(t) ==
    /\ pc[t] = "fc_dtr"
    /\ dtr' = FALSE
    /\ pc' = [pc EXCEPT ![t] = "fc_rts"]
    /\ UNCHANGED <<data, rts, lock, kind, rx, answer, ncmd, wlog, nread,
                   lastWrite, sent, last, lastGood, report>>

\* _disable_flow_control: connection.rts = False
disable_flow_control_rts(t) ==
    /\ pc[t] = "fc_rts"
    /\ rts' = FALSE
    /\ pc' = [pc EXCEPT ![t] = "fc_sleep"]
    /\ UNCHANGED <<data, dtr, lock, kind, rx, answer, ncmd, wlog, nread,
                   lastWrite, sent, last, lastGood, report>>

\* _disable_flow_control: time.sleep(0.5) returns
disable_flow_control_sleep(t) ==
    /\ pc[t] = "fc_sleep"
    /\ pc' = [pc EXCEPT ![t] = "super"]
    /\ UNCHANGED <<data, dtr, rts, lock, kind, rx, answer, ncmd, wlog, nread,
                   lastWrite, sent, last, lastGood, report>>

\* super()._take_measure() and super()._do_action(data): the base class
\* takes the device lock, then calls _read_weight or the action's handler.
super_call(t) ==
    /\ pc[t] = "super"
    /\ lock = "free"
    /\ lock' = t
    /\ pc' = [pc EXCEPT ![t] = "write"]
    /\ UNCHANGED <<data, dtr, rts, kind, rx, answer, ncmd, wlog, nread,
                   lastWrite, sent, last, lastGood, report>>

\* _read_weight that goes on to the capture after a write that timed out.
read_weight_write_ignores_timeout(R) ==
    /\ pc["poll"] = "write"
    /\ \E o \in WriteOutcomes :
        /\ Write("poll", measureCommand \o commandTerminator, o)
        /\ IF o = "ok"
           THEN \E r \in R :
                   /\ rx' = rx \o Reply(r)
                   /\ sent' = IF dtr \/ rts THEN Raw(<<>>) ELSE r
           ELSE UNCHANGED <<rx, sent>>
    /\ pc' = [pc EXCEPT !["poll"] = "capture"]
    /\ UNCHANGED <<data, dtr, rts, lock, kind, answer, ncmd, nread, last,
                   lastGood, report>>

\* _read_weight: self._connection.write(measureCommand + commandTerminator);
\* the scale answers with one of the replies R.  A write that times out
\* raises out of _read_weight before the capture: the scale has received no
\* command, self.data is untouched and the base class releases the lock.
read_weight_write(R) ==
    /\ pc["poll"] = "write"
    /\ \E o \in WriteOutcomes :
        /\ Write("poll", measureCommand \o commandTerminator, o)
        /\ IF o = "ok"
           THEN /\ \E r \in R :
                    /\ rx' = rx \o Reply(r)
                    /\ sent' = IF dtr \/ rts THEN Raw(<<>>) ELSE r
                /\ pc' = [pc EXCEPT !["poll"] = "capture"]
                /\ UNCHANGED <<last, lock>>
           ELSE /\ last' = [answer |-> NoAnswer, prev |-> data.result,
                            outcome |-> "write_timeout"]
                /\ lock' = "free"
                /\ pc' = [pc EXCEPT !["poll"] = "idle"]
                /\ UNCHANGED <<rx, sent>>
    /\ UNCHANGED <<data, dtr, rts, kind, answer, ncmd, nread, lastGood, report>>

\* The capture loop: one byte at a time until the buffer ends with the
\* terminator, holds max_length bytes, or a read returns no byte.
RECURSIVE capture(_, _)
capture(buf, pending) ==
    IF \/ HasAt(buf, Len(buf) - 1, commandTerminator)
       \/ Len(buf) >= MaxLength
       \/ pending = <<>>
    THEN [answer |-> buf, rest |-> pending]
    ELSE capture(Append(buf, Head(pending)), Tail(pending))

\* _read_weight: answer = self._get_raw_response(self._connection)
get_raw_response ==
    /\ pc["poll"] = "capture"
    /\ answer' = capture(<<>>, rx).answer
    /\ rx' = capture(<<>>, rx).rest
    /\ nread' = [nread EXCEPT !["poll"] = @ + 1]
    /\ pc' = [pc EXCEPT !["poll"] = "parse"]
    /\ UNCHANGED <<data, dtr, rts, lock, kind, ncmd, wlog, lastWrite, sent,
                   last, lastGood, report>>

\* self.data.get('result', 0)
GetResult(d) == IF d.result = NoResult THEN Zero ELSE d.result

\* _read_weight with the fallback of 0 in place of the previous result.
read_weight_zero(d, ans) ==
    LET match == CPW_MEASURE_REGEXP(ans)
    IN  IF match.ok
        THEN IF IsDecimal(match.group1)
             THEN [raised |-> FALSE,
                   data |-> [result |-> IF CPW_SIGN_REGEXP(ans)
                                        THEN Negate(float(match.group1))
                                        ELSE float(match.group1),
                             status |-> status]]
             ELSE [raised |-> TRUE, data |-> d]
        ELSE [raised |-> FALSE, data |-> [result |-> Zero, status |-> status]]

\* _read_weight with the sign taken from the sign byte the magnitude
\* pattern matched.
read_weight_own_sign(d, ans) ==
    LET match == CPW_MEASURE_REGEXP(ans)
    IN  IF match.ok
        THEN IF IsDecimal(match.group1)
             THEN [raised |-> FALSE,
                   data |-> [result |-> IF match.signch = "-"
                                        THEN Negate(float(match.group1))
                                        ELSE float(match.group1),
                             status |-> status]]
             ELSE [raised |-> TRUE, data |-> d]
        ELSE [raised |-> FALSE,
              data |-> [result |-> GetResult(d), status |-> status]]

\* _read_weight from match = re.search(...) on: the new self.data, or the
\* ValueError of float() on a token that is no decimal number, which leaves
\* self.data as it was.
read_weight(d, ans) ==
    LET match == CPW_MEASURE_REGEXP(ans)
    IN  IF match.ok
        THEN IF IsDecimal(match.group1)
             THEN [raised |-> FALSE,
                   data |-> [result |-> IF CPW_SIGN_REGEXP(ans)
                                        THEN Negate(float(match.group1))
                                        ELSE float(match.group1),
                             status |-> status]]
             ELSE [raised |-> TRUE, data |-> d]
        ELSE [raised |-> FALSE,
              data |-> [result |-> GetResult(d), status |-> status]]

\* A value is decoded from the answer.
Decodes(ans) ==
    CPW_MEASURE_REGEXP(ans).ok /\ IsDecimal(CPW_MEASURE_REGEXP(ans).group1)

\* _read_weight that sends the request again when the answer does not match.
read_weight_parse_resend ==
    /\ pc["poll"] = "parse"
    /\ IF ~CPW_MEASURE_REGEXP(answer).ok /\ Len(wlog["poll"]) < 2
       THEN /\ pc' = [pc EXCEPT !["poll"] = "write"]
            /\ UNCHANGED <<data, last, lastGood, lock>>
       ELSE /\ data' = read_weight(data, answer).data
            /\ last' = [answer |-> answer, prev |-> data.result,
                        outcome |-> IF read_weight(data, answer).raised
                                    THEN "raised"
                                    ELSE IF CPW_MEASURE_REGEXP(answer).ok
                                    THEN "parsed"
                                    ELSE "fallback"]
            /\ lastGood' = IF Decodes(answer) THEN answer ELSE lastGood
            /\ lock' = "free"
            /\ pc' = [pc EXCEPT !["poll"] = "idle"]
    /\ UNCHANGED <<dtr, rts, kind, rx, answer, ncmd, wlog, nread, lastWrite,
                   sent, report>>

\* _read_weight: the parse of the answer and the update of self.data; the
\* base class releases the device lock as _read_weight returns or raises.
read_weight_parse ==
    /\ pc["poll"] = "parse"
    /\ data' = read_weight(data, answer).data
    /\ last' = [answer |-> answer, prev |-> data.result,
                outcome |-> IF read_weight(data, answer).raised THEN "raised"
                            ELSE IF CPW_MEASURE_REGEXP(answer).ok THEN "parsed"
                            ELSE "fallback"]
    /\ lastGood' = IF Decodes(answer) THEN answer ELSE lastGood
    /\ lock' = "free"
    /\ pc' = [pc EXCEPT !["poll"] = "idle"]
    /\ UNCHANGED <<dtr, rts, kind, rx, answer, ncmd, wlog, nread, lastWrite,
                   sent, report>>

\* T -> Tare   Response: echoes current weight
TareReplies(R) == {r \in R : r.kind = "wire"}

\* _tare_action that also reads the reply of the scale.
tare_action_reads(R) ==
    /\ pc["act"] = "write"
    /\ kind = "tare"
    /\ Write("act", <<"T">> \o commandTerminator, "ok")
    /\ rx' = <<>>
    /\ nread' = [nread EXCEPT !["act"] = @ + 1]
    /\ pc' = [pc EXCEPT !["act"] = "sleep"]
    /\ UNCHANGED <<data, dtr, rts, lock, kind, answer, ncmd, sent, last,
                   lastGood, report>>

\* A write of the action thread timed out: SerialTimeoutException leaves
\* the handler before its sleep, the base class releases the lock, and the
\* caller is shown the failure.
ActionRaises ==
    /\ report' = [action |-> kind, status |-> "write_timeout"]
    /\ lock' = "free"
    /\ pc' = [pc EXCEPT !["act"] = "idle"]
    /\ rx' = rx

\* _tare_action: self._connection.write(b'T' + commandTerminator)
tare_action(R) ==
    /\ pc["act"] = "write"
    /\ kind = "tare"
    /\ \E o \in WriteOutcomes :
        /\ Write("act", <<"T">> \o commandTerminator, o)
        /\ IF o = "ok"
           THEN /\ \E r \in TareReplies(R) : rx' = rx \o Reply(r)
                /\ pc' = [pc EXCEPT !["act"] = "sleep"]
                /\ UNCHANGED <<lock, report>>
           ELSE ActionRaises
    /\ UNCHANGED <<data, dtr, rts, kind, answer, ncmd, nread, sent, last,
                   lastGood>>

\* _zero_action: self._connection.write(b'Z' + commandTerminator)
zero_action ==
    /\ pc["act"] = "write"
    /\ kind = "zero"
    /\ \E o \in WriteOutcomes :
        /\ Write("act", <<"Z">> \o commandTerminator, o)
        /\ IF o = "ok"
           THEN /\ rx' = rx \o Reply(ZeroReply)
                /\ pc' = [pc EXCEPT !["act"] = "sleep"]
                /\ UNCHANGED <<lock, report>>
           ELSE ActionRaises
    /\ UNCHANGED <<data, dtr, rts, kind, answer, ncmd, nread, sent, last,
                   lastGood>>

\* _tare_action, _zero_action: time.sleep(commandDelay) returns, the handler
\* returns None, and the caller is shown self.data as it stands.
action_delay ==
    /\ pc["act"] = "sleep"
    /\ report' = [action |-> kind, status |-> data.status]
    /\ lock' = "free"
    /\ pc' = [pc EXCEPT !["act"] = "idle"]
    /\ UNCHANGED <<data, dtr, rts, kind, rx, answer, ncmd, wlog, nread,
                   lastWrite, sent, last, lastGood>>

\* Between two operations the adapter chip asserts a control line again.
chip_reasserts ==
    /\ \A t \in Threads : pc[t] = "idle"
    /\ \E l \in {"dtr", "rts", "both"} :
        /\ dtr' = (dtr \/ l \in {"dtr", "both"})
        /\ rts' = (rts \/ l \in {"rts", "both"})
    /\ UNCHANGED <<data, lock, pc, kind, rx, answer, ncmd, wlog, nread,
                   lastWrite, sent, last, lastGood, report>>

(***************************************************************************)
(* supported(): the probe of a serial device on a connection of its own.   *)
(***************************************************************************)
VARIABLES
    ppc,        \* where supported() stands
    popen,      \* the temporary connection is open
    pdtr,       \* connection.dtr of the temporary connection
    prts,       \* connection.rts of the temporary connection
    pwrites,    \* the writes on the temporary connection
    pline,      \* bytes the probed device has sent and the probe has not read
    panswer,    \* answer = connection.read(30)
    pexc,       \* the exception raised inside the try block
    pfailed,    \* the step that raised it
    presult     \* what supported() returned

pvars ==
    <<ppc, popen, pdtr, prts, pwrites, pline, panswer, pexc, pfailed, presult>>

\* answer = connection.read(30)
ProbeReadLen == 30

\* How a step of the probe ends: it succeeds, it raises
\* serial.serialutil.SerialTimeoutException, or it raises another Exception.
Outcomes == {"ok", "timeout", "other"}

InitProbe ==
    /\ ppc = "open"
    /\ popen = FALSE
    /\ pdtr = TRUE
    /\ prts = TRUE
    /\ pwrites = <<>>
    /\ pline = <<>>
    /\ panswer = NoAnswer
    /\ pexc = "none"
    /\ pfailed = "none"
    /\ presult = "none"

\* A step of the try block raises: the with statement closes the connection
\* and control passes to the except clauses.
ProbeRaises(step, o) ==
    /\ o # "ok"
    /\ pexc' = o
    /\ pfailed' = step
    /\ popen' = FALSE
    /\ ppc' = "except"

\* with serial_connection(device['identifier'], protocol, is_probing=True)
supported_open ==
    /\ ppc = "open"
    /\ \E o \in Outcomes :
        \/ /\ o = "ok"
           /\ popen' = TRUE
           /\ ppc' = "flow"
           /\ UNCHANGED <<pexc, pfailed>>
        \/ ProbeRaises("open", o)
    /\ UNCHANGED <<pdtr, prts, pwrites, pline, panswer, presult>>

\* cls._disable_flow_control(connection)
supported_flow_control ==
    /\ ppc = "flow"
    /\ \E o \in Outcomes :
        \/ /\ o = "ok"
           /\ pdtr' = FALSE
           /\ prts' = FALSE
           /\ ppc' = "write"
           /\ UNCHANGED <<popen, pexc, pfailed>>
        \/ /\ ProbeRaises("flow", o)
           /\ UNCHANGED <<pdtr, prts>>
    /\ UNCHANGED <<pwrites, pline, panswer, presult>>

\* supported() that sends the request a second time.
supported_write_twice(R) ==
    /\ ppc = "write"
    /\ pwrites' = pwrites \o <<<<"G">> \o commandTerminator,
                              <<"G">> \o commandTerminator>>
    /\ \E r \in R : pline' = (IF pdtr \/ prts THEN <<>> ELSE Bytes(r))
    /\ ppc' = "read"
    /\ UNCHANGED <<popen, pexc, pfailed, pdtr, prts, panswer, presult>>

\* connection.write(b'G' + protocol.commandTerminator); the probed device
\* sends one of the replies R or the bytes of another kind of device.
supported_write(R) ==
    /\ ppc = "write"
    /\ \E o \in Outcomes :
        \/ /\ o = "ok"
           /\ pwrites' = Append(pwrites, <<"G">> \o commandTerminator)
           /\ \E r \in R : pline' = (IF pdtr \/ prts THEN <<>> ELSE Bytes(r))
           /\ ppc' = "read"
           /\ UNCHANGED <<popen, pexc, pfailed>>
        \/ /\ ProbeRaises("write", o)
           /\ UNCHANGED <<pwrites, pline>>
    /\ UNCHANGED <<pdtr, prts, panswer, presult>>

\* The first n bytes of s.
Take(s, n) == SubSeq(s, 1, IF Len(s) < n THEN Len(s) ELSE n)

\* time.sleep(protocol.commandDelay); answer = connection.read(30)
supported_read ==
    /\ ppc = "read"
    /\ \E o \in Outcomes :
        \/ /\ o = "ok"
           /\ panswer' = Take(pline, ProbeReadLen)
           /\ pline' = SubSeq(pline, Len(Take(pline, ProbeReadLen)) + 1, Len(pline))
           /\ ppc' = "classify"
           /\ UNCHANGED <<popen, pexc, pfailed>>
        \/ /\ ProbeRaises("read", o)
           /\ UNCHANGED <<pline, panswer>>
    /\ UNCHANGED <<pdtr, prts, pwrites, presult>>

\* The test of supported() with the prefix tokens alone, as test_probe has it.
supported_answer_prefix_only(ans) == Contains(ans, GW) \/ Contains(ans, NW)

\* b'G/W' in answer or b'N/W' in answer or re.search(rb'[+-]\s*...', answer)
supported_answer(ans) ==
    Contains(ans, GW) \/ Contains(ans, NW) \/ ProbePattern(ans)

\* The if statement on the answer: return True, or fall through to
\* return False; the with statement closes the connection either way.
supported_classify ==
    /\ ppc = "classify"
    /\ presult' = IF supported_answer(panswer) THEN "true" ELSE "false"
    /\ popen' = FALSE
    /\ ppc' = "done"
    /\ UNCHANGED <<pdtr, prts, pwrites, pline, panswer, pexc, pfailed>>

\* except clauses that catch SerialTimeoutException alone.
supported_handler_timeout_only(exc) ==
    IF exc = "timeout" THEN "false" ELSE "raised"

\* except serial.serialutil.SerialTimeoutException / except Exception: both
\* log and fall through to return False.
supported_handler(exc) == "false"

supported_except ==
    /\ ppc = "except"
    /\ presult' = supported_handler(pexc)
    /\ ppc' = "done"
    /\ UNCHANGED <<popen, pdtr, prts, pwrites, pline, panswer, pexc, pfailed>>

\* A device that is no CPWplus, and replies that reach the 30 byte limit.
ProbeReplies ==
    BigReplies \cup
    { Raw(GW), Raw(NW), Raw(<<"x", "N", "/", "W", "y">>),
      Raw(<<"G", "/", "w">>),
      Raw([i \in 1..(ProbeReadLen - 3) |-> " "] \o GW),
      Raw([i \in 1..(ProbeReadLen - 2) |-> " "] \o GW),
      Raw([i \in 1..(ProbeReadLen - 5) |-> "x"] \o <<"+", "5", " ", "l", "b">>),
      Raw([i \in 1..(ProbeReadLen - 4) |-> "x"] \o <<"+", "5", " ", "l", "b">>) }

(***************************************************************************)
(* read_response() of the test script: the capture of one response.        *)
(***************************************************************************)
VARIABLES
    cpc,        \* where read_response() stands
    cbuf,       \* answer
    cline,      \* bytes the scale has still to send
    csrc,       \* the bytes the scale sends
    cstream     \* the scale keeps sending them again (continuous output)

cvars == <<cpc, cbuf, cline, csrc, cstream>>

\* Bytes one behaviour lets read_response() read at most.
MaxCapture == 24

\* What the scale sends while read_response() listens: one line, noise, a
\* line without its terminator, two lines in a row, nothing.
CaptureLines ==
    { Bytes(FivePounds), Bytes(HalfKiloUnder), Bytes(ZeroReply),
      <<"NUL", "SOH">>, <<"+", " ", "5", " ", "l", "b">>,
      Bytes(FivePounds) \o Bytes(HalfKiloUnder),
      Bytes(ZeroReply) \o Bytes(FivePounds), <<>> }

InitCapture ==
    /\ cpc = "sleep"
    /\ cbuf = <<>>
    /\ csrc \in CaptureLines
    /\ cline = csrc
    /\ cstream \in BOOLEAN

\* time.sleep(0.3); answer = b''
read_response_sleep ==
    /\ cpc = "sleep"
    /\ cpc' = "read"
    /\ cbuf' = <<>>
    /\ UNCHANGED <<cline, csrc, cstream>>

\* chunk = conn.read(1); if not chunk: break; answer += chunk
read_response_read ==
    /\ cpc = "read"
    /\ Len(cbuf) < MaxCapture
    /\ IF cline # <<>>
       THEN /\ cbuf' = Append(cbuf, Head(cline))
            /\ cline' = IF Tail(cline) = <<>> /\ cstream THEN csrc ELSE Tail(cline)
            /\ cpc' = "read"
       ELSE /\ cpc' = "done"
            /\ UNCHANGED <<cbuf, cline>>
    /\ UNCHANGED <<csrc, cstream>>

(***************************************************************************)
(* The parse and the probe test of the test script.                        *)
(***************************************************************************)
\* [GN]/W\s*[+-]\s*([0-9.]+)\s*(?:lb|kg|oz) anchored at index i: the prefix
\* is required and the blanks before the unit are optional.
WeightAt(s, i) ==
    LET j == PrefixAt(s, i)
        k == SkipWhile(s, j + 1, WS)
        n == SkipWhile(s, k, NUMCH)
        m == SkipWhile(s, n, WS)
    IN  IF /\ j > 0
           /\ j <= Len(s)
           /\ s[j] \in SIGNCH
           /\ n > k
           /\ \E u \in UNITS : HasAt(s, m, u)
        THEN [ok |-> TRUE, group1 |-> SubSeq(s, k, n - 1), signch |-> s[j]]
        ELSE NoMatch

\* re.search(WEIGHT_RE, answer): the leftmost match.
WEIGHT_RE(s) ==
    LET hits == {i \in 1..Len(s) : WeightAt(s, i).ok}
    IN  IF hits = {} THEN NoMatch
        ELSE WeightAt(s, CHOOSE i \in hits : \A j \in hits : i <= j)

\* re.search(SIGN_RE, answer) is not None: [GN]/W\s*(-)\s*[0-9.]
SIGN_RE(s) ==
    \E i \in 1..Len(s) : PrefixAt(s, i) > 0 /\ MinusAt(s, PrefixAt(s, i))

\* test_gross_weight from match = re.search(WEIGHT_RE, answer) on: the
\* weight it prints, the ValueError of float(), or no match.
test_gross_weight(ans) ==
    LET match == WEIGHT_RE(ans)
    IN  IF match.ok
        THEN IF IsDecimal(match.group1)
             THEN [outcome |-> "parsed",
                   weight |-> IF SIGN_RE(ans)
                              THEN Negate(float(match.group1))
                              ELSE float(match.group1)]
             ELSE [outcome |-> "raised", weight |-> NoResult]
        ELSE [outcome |-> "fallback", weight |-> NoResult]

\* test_probe: if b'G/W' in answer ... elif b'N/W' in answer ... else
test_probe(ans) == Contains(ans, GW) \/ Contains(ans, NW)

vars == <<dvars, pvars, cvars>>

\* The driver is in service: no probe runs and the test script is not used.
ProbeIdle == InitProbe

ScriptIdle ==
    /\ cpc = "sleep"
    /\ cbuf = <<>>
    /\ csrc = <<>>
    /\ cline = <<>>
    /\ cstream = FALSE

\* The production connection is open and idle.
DriverIdle == InitDriver

Init == InitDriver /\ ProbeIdle /\ ScriptIdle

Next ==
    \/ take_measure /\ UNCHANGED <<pvars, cvars>>
    \/ do_action /\ UNCHANGED <<pvars, cvars>>
    \/ (\E t \in Threads : disable_flow_control_dtr(t)) /\ UNCHANGED <<pvars, cvars>>
    \/ (\E t \in Threads : disable_flow_control_rts(t)) /\ UNCHANGED <<pvars, cvars>>
    \/ (\E t \in Threads : disable_flow_control_sleep(t)) /\ UNCHANGED <<pvars, cvars>>
    \/ (\E t \in Threads : super_call(t)) /\ UNCHANGED <<pvars, cvars>>
    \/ read_weight_write(SmallReplies) /\ UNCHANGED <<pvars, cvars>>
    \/ get_raw_response /\ UNCHANGED <<pvars, cvars>>
    \/ read_weight_parse /\ UNCHANGED <<pvars, cvars>>
    \/ tare_action(SmallReplies) /\ UNCHANGED <<pvars, cvars>>
    \/ zero_action /\ UNCHANGED <<pvars, cvars>>
    \/ action_delay /\ UNCHANGED <<pvars, cvars>>
    \/ chip_reasserts /\ UNCHANGED <<pvars, cvars>>

Spec == Init /\ [][Next]_vars

\* One probe of one device.
NextProbe ==
    \/ supported_open /\ UNCHANGED <<dvars, cvars>>
    \/ supported_flow_control /\ UNCHANGED <<dvars, cvars>>
    \/ supported_write(ProbeReplies) /\ UNCHANGED <<dvars, cvars>>
    \/ supported_read /\ UNCHANGED <<dvars, cvars>>
    \/ supported_classify /\ UNCHANGED <<dvars, cvars>>
    \/ supported_except /\ UNCHANGED <<dvars, cvars>>

ProbeStart == DriverIdle /\ InitProbe /\ ScriptIdle

SpecProbe == ProbeStart /\ [][NextProbe]_vars

\* One capture by the test script.
NextCapture ==
    \/ read_response_sleep /\ UNCHANGED <<dvars, pvars>>
    \/ read_response_read /\ UNCHANGED <<dvars, pvars>>

CaptureStart == DriverIdle /\ ProbeIdle /\ InitCapture

SpecCapture == CaptureStart /\ [][NextCapture]_vars

(***************************************************************************)
(* Properties of the driver on its production connection.                  *)
(***************************************************************************)
\* The signed value an answer stands for: the number the magnitude pattern
\* captured, negated when the sign pattern matches.
SignedValue(ans) ==
    IF CPW_SIGN_REGEXP(ans)
    THEN Negate(float(CPW_MEASURE_REGEXP(ans).group1))
    ELSE float(CPW_MEASURE_REGEXP(ans).group1)

\* C1: after any sequence of measures the stored value is the value decoded
\* from the most recent response a value was decoded from; a measure whose
\* response does not match stores the previous value again, and the value
\* is the default 0 only while no response has been decoded (there is no
\* value at all before the first measure that returns).
C1_ValueIsLastDecoded ==
    /\ data.result =
         IF lastGood # NoAnswer THEN SignedValue(lastGood)
         ELSE IF data.status = "absent" THEN NoResult ELSE Zero
    /\ last.outcome = "fallback" =>
         data.result = (IF last.prev = NoResult THEN Zero ELSE last.prev)

\* A measure whose response did not match kept a previous value that is
\* not zero.
C1_Witness ==
    /\ last.outcome = "fallback"
    /\ last.prev \notin {NoResult, Zero}
    /\ data.result = last.prev

\* The bytes of an action's command.
CommandOf(k) == (IF k = "tare" THEN <<"T">> ELSE <<"Z">>) \o commandTerminator

\* C4: a finished tare or zero has written once, its command byte followed
\* by CRLF, has read nothing, and no step of the action changes self.data.
C4_ActionWritesOnce ==
    /\ [](pc["act"] = "idle" /\ report.action # "none" =>
            /\ wlog["act"] = <<CommandOf(report.action)>>
            /\ nread["act"] = 0)
    /\ [][pc'["act"] # pc["act"] => data' = data]_vars

\* A tare has finished while a Reading was stored.
C4_Witness ==
    /\ pc["act"] = "idle"
    /\ report.action = "tare"
    /\ report.status = status
    /\ data.result \notin {NoResult, Zero}
    /\ wlog["act"] = <<<<"T", "CR", "LF">>>>

\* C7: no command is written (by a write that went through) while DTR or
\* RTS is asserted or before the settle delay that follows their change has
\* elapsed.
C7_NoWriteWhileAsserted ==
    lastWrite.by # "none" /\ ~lastWrite.timeout =>
        ~lastWrite.dtr /\ ~lastWrite.rts /\ ~lastWrite.settling

\* Thread t is between the start and the end of a command cycle: in the
\* flow-control fix, or writing, reading or sleeping under the lock.
Busy(t) ==
    pc[t] \in {"fc_dtr", "fc_rts", "fc_sleep", "write", "capture", "parse", "sleep"}

\* C8: at most one command cycle is in flight: the polling thread and the
\* action thread are never both inside one.
C8_OneCycleInFlight == ~(Busy("poll") /\ Busy("act"))

\* C10: the result reported after a tare or zero whose write went through
\* carries a terminal success status that is not the connection-state status.
C10_ActionReportsSuccess ==
    report.action # "none" /\ report.status # "write_timeout" =>
        report.status = "success" /\ report.status # status

\* The polling thread is idle and its latest measure got its command out:
\* it has returned, or float() has raised on its response.
Measured ==
    /\ pc["poll"] = "idle"
    /\ last.outcome \in {"parsed", "fallback", "raised"}

\* C14: a measure that has returned decoded the reply the scale gave to
\* its own "G": no bytes sent in reply to an earlier T or Z, and no reply
\* to an earlier G, are taken as its response.
C14_MeasureDecodesOwnReply == Measured => last.answer = Bytes(sent)

\* C17: a measure, tare or zero whose write timed out is reported to the
\* caller as failed, has attempted no read, and has not changed self.data:
\* the failing write leaves data and the input buffer alone, no step of an
\* action and no step of a measure before its parse changes data, and a
\* measure whose write failed never reaches its capture.
C17_WriteTimeoutSurfaced ==
    /\ [](pc["poll"] = "idle" /\ lastWrite.by = "poll" /\ lastWrite.timeout =>
            /\ last.outcome = "write_timeout"
            /\ nread["poll"] = 0
            /\ data.result = last.prev)
    /\ [](pc["act"] = "idle" /\ lastWrite.by = "act" /\ lastWrite.timeout =>
            /\ report = [action |-> kind, status |-> "write_timeout"]
            /\ nread["act"] = 0)
    /\ [][(\E t \in Threads : Len(wlog'[t]) > Len(wlog[t])) /\ lastWrite'.timeout =>
            /\ data' = data
            /\ rx' = rx
            /\ nread' = nread
            /\ pc'[lastWrite'.by] = "idle"]_vars
    /\ [][pc'["act"] # pc["act"] \/
          (pc'["poll"] # pc["poll"] /\ pc["poll"] # "parse") => data' = data]_vars

\* With a Reading stored, the write of a measure and the write of a tare
\* have both timed out, and the Reading is still there.
C17_Witness ==
    /\ pc["poll"] = "idle"
    /\ pc["act"] = "idle"
    /\ last.outcome = "write_timeout"
    /\ last.prev \notin {NoResult, Zero}
    /\ report = [action |-> "tare", status |-> "write_timeout"]
    /\ data.result = last.prev
    /\ nread = [t \in Threads |-> 0]

(***************************************************************************)
(* One measure on a driver that holds a Reading already, against a scale   *)
(* that may answer with any line of the wire format or with an odd reply.  *)
(***************************************************************************)
\* self.data of a driver before its first measure, and after a measure of
\* "+ 5 lb" or of "N/W - 0.50 kg", each with the answer it was decoded from.
Priors ==
    { [data |-> [result |-> NoResult, status |-> "absent"], good |-> NoAnswer],
      [data |-> [result |-> float(<<"5">>), status |-> status],
       good |-> Bytes(FivePounds)],
      [data |-> [result |-> Negate(float(<<"0", ".", "5">>)), status |-> status],
       good |-> Bytes(HalfKiloUnder)] }

InitParse ==
    /\ \E p \in Priors :
        /\ data = p.data
        /\ lastGood = p.good
    /\ dtr = TRUE
    /\ rts = TRUE
    /\ lock = "free"
    /\ pc = [t \in Threads |-> "idle"]
    /\ kind = "none"
    /\ rx = <<>>
    /\ answer = <<>>
    /\ ncmd = MaxCmds - 1
    /\ wlog = [t \in Threads |-> <<>>]
    /\ nread = [t \in Threads |-> 0]
    /\ lastWrite = [by |-> "none", dtr |-> FALSE, rts |-> FALSE,
                   settling |-> FALSE, timeout |-> FALSE]
    /\ sent = Raw(<<>>)
    /\ last = [answer |-> NoAnswer, prev |-> NoResult, outcome |-> "none"]
    /\ report = [action |-> "none", status |-> "absent"]

NextParse ==
    \/ take_measure /\ UNCHANGED <<pvars, cvars>>
    \/ disable_flow_control_dtr("poll") /\ UNCHANGED <<pvars, cvars>>
    \/ disable_flow_control_rts("poll") /\ UNCHANGED <<pvars, cvars>>
    \/ disable_flow_control_sleep("poll") /\ UNCHANGED <<pvars, cvars>>
    \/ super_call("poll") /\ UNCHANGED <<pvars, cvars>>
    \/ read_weight_write(BigReplies) /\ UNCHANGED <<pvars, cvars>>
    \/ get_raw_response /\ UNCHANGED <<pvars, cvars>>
    \/ read_weight_parse /\ UNCHANGED <<pvars, cvars>>

ParseStart == InitParse /\ ProbeIdle /\ ScriptIdle

SpecParse == ParseStart /\ [][NextParse]_vars

\* The number of a wire line with the sign of the line.
WireValue(r) == IF r.sg = "-" THEN Negate(float(r.num)) ELSE float(r.num)

\* The latest measure has returned or raised on the reply r of the scale.
MeasuredReply(r) ==
    /\ last.outcome # "none"
    /\ sent = r
    /\ last.answer = Bytes(r)

\* C5: a measure whose response is a line of the wire format (blanks
\* between number and unit optional) stores the number with its sign.
C5_WireFormatStored ==
    \A r \in {sent} :
        r.kind = "wire" /\ MeasuredReply(r) => data.result = WireValue(r)

\* C5 for the lines that hold one whitespace at least before the unit.
C5_SpacedWireStored ==
    \A r \in {sent} :
        r.kind = "wire" /\ r.w3 # <<>> /\ MeasuredReply(r) =>
            data.result = WireValue(r)

\* C6: a measure that stored a parsed value stored the captured number
\* negated when the sign pattern matches the buffer, and as it is when the
\* sign pattern does not match, whatever prefix and sign byte were matched.
C6_SignFromSignPattern ==
    last.outcome = "parsed" =>
        /\ data.result.m = float(CPW_MEASURE_REGEXP(last.answer).group1).m
        /\ data.result.e = float(CPW_MEASURE_REGEXP(last.answer).group1).e
        /\ data.result.neg = CPW_SIGN_REGEXP(last.answer)

\* A parsed value is negative by the sign pattern although the magnitude
\* was matched after a "+".
C6_Witness ==
    /\ last.outcome = "parsed"
    /\ CPW_MEASURE_REGEXP(last.answer).signch = "+"
    /\ CPW_SIGN_REGEXP(last.answer)
    /\ data.result.neg

\* C13: a measure writes "G" CRLF once and captures once, whatever the
\* response: a response that does not parse causes no second write and no
\* second capture within the measure.
C13_OneWriteOneCapture ==
    /\ Len(wlog["poll"]) <= 1
    /\ nread["poll"] <= 1
    /\ pc["poll"] \in {"capture", "parse"} \/ Measured =>
            wlog["poll"] = <<measureCommand \o commandTerminator>>
    /\ pc["poll"] = "parse" \/ Measured => nread["poll"] = 1

\* A measure has returned on a response that holds bytes and no weight.
C13_Witness ==
    /\ pc["poll"] = "idle"
    /\ last.outcome = "fallback"
    /\ last.answer # <<>>
    /\ wlog["poll"] = <<measureCommand \o commandTerminator>>
    /\ nread["poll"] = 1

\* C15: a parsed value is negative only if the sign byte the magnitude
\* pattern matched, the one in front of the captured number, is "-".
C15_SignOfMatchedToken ==
    last.outcome = "parsed" /\ data.result.neg =>
        CPW_MEASURE_REGEXP(last.answer).signch = "-"

\* C16: no response makes a measure raise: on every buffer the measure
\* stores a parsed value or stores the previous value again.
C16_MeasureNeverRaises ==
    Measured =>
        /\ last.outcome \in {"parsed", "fallback"}
        /\ last.outcome = "fallback" =>
             data.result = (IF last.prev = NoResult THEN Zero ELSE last.prev)
        /\ data.status = status

C3_ProbeNeverRaises ==
    /\ presult # "raised"
    /\ ppc = "done" /\ pexc # "none" => presult = "false"

\* The read failed with an exception that is no serial timeout and the
\* probe returned false.
C3_Witness ==
    /\ ppc = "done"
    /\ pexc = "other"
    /\ pfailed = "read"
    /\ presult = "false"

\* The request of the probe.
ProbeRequest == <<"G">> \o commandTerminator

\* C12: a probe works on a connection of its own and in this order: it
\* opens the connection, sets DTR and RTS inactive, writes "G" CRLF once,
\* reads 30 bytes at most, terminator or not; and the connection is closed
\* when the probe has returned, with true, with false or after an exception.
C12_ProbeStepsInOrder ==
    /\ [](ppc = "done" => ~popen /\ presult \in {"true", "false"})
    /\ [](Len(pwrites) <= 1)
    /\ [](ppc \in {"read", "classify"} \/ (ppc = "done" /\ pexc = "none") =>
            pwrites = <<ProbeRequest>>)
    /\ [](panswer # NoAnswer => Len(panswer) <= ProbeReadLen)
    /\ [][~popen /\ popen' =>
            pdtr /\ prts /\ pwrites = <<>> /\ panswer = NoAnswer]_vars
    /\ [][pdtr' # pdtr \/ prts' # prts =>
            popen /\ ~pdtr' /\ ~prts' /\ pwrites = <<>>]_vars
    /\ [][pwrites' # pwrites =>
            /\ popen /\ ~pdtr /\ ~prts
            /\ pwrites' = <<ProbeRequest>>
            /\ panswer = NoAnswer]_vars
    /\ [][panswer' # panswer =>
            /\ popen /\ pwrites = <<ProbeRequest>>
            /\ panswer = NoAnswer
            /\ panswer' = Take(pline, ProbeReadLen)]_vars
    /\ [][dvars' = dvars]_vars

\* A probe has returned true on 30 bytes that hold no terminator, and its
\* connection is closed.
C12_Witness ==
    /\ ppc = "done"
    /\ presult = "true"
    /\ ~popen /\ ~pdtr /\ ~prts
    /\ pwrites = <<ProbeRequest>>
    /\ Len(panswer) = ProbeReadLen
    /\ ~Contains(panswer, commandTerminator)

(***************************************************************************)
(* Properties of the capture.                                              *)
(***************************************************************************)
\* C9: the captured buffer never holds more than max_length bytes and no
\* byte follows the first CRLF in it.
C9_CaptureFramed ==
    /\ Len(cbuf) <= MaxLength
    /\ \A i \in 1..(Len(cbuf) - 2) : ~HasAt(cbuf, i, commandTerminator)

(***************************************************************************)
(* The test script against the driver.                                     *)
(***************************************************************************)
\* test_probe identifies the device of a reply exactly when supported() did.
C11_ProbeAgrees ==
    ppc = "done" /\ pexc = "none" =>
        (test_probe(panswer) <=> presult = "true")

\* The parse of the script yields a weight from a reply exactly when the
\* parse of the driver does, and then the same weight.
C11_ParseAgrees ==
    ppc = "done" /\ pexc = "none" =>
        /\ test_gross_weight(panswer).outcome = "parsed" <=> Decodes(panswer)
        /\ test_gross_weight(panswer).outcome = "parsed" =>
             test_gross_weight(panswer).weight
                 = read_weight(data, panswer).data.result

\* C11: for every reply of a device, test_probe identifies the device
\* exactly when supported() does, and the script's parse (WEIGHT_RE and
\* SIGN_RE) yields a weight exactly when the driver's parse
\* (CPW_MEASURE_REGEXP and CPW_SIGN_REGEXP) does, with the same signed value.
C11_ScriptSimulatesDriver == C11_ProbeAgrees /\ C11_ParseAgrees

====
